---- MODULE Spec2Model ----
(***************************************************************************)
(* Model of the x402 payment engine of x402-firecrawl:                     *)
(*   src/src/lib/services/x402Service.ts  (searchNews, the delegated       *)
(*   strategy searchNewsWithX402Fetch, the manual strategy                 *)
(*   makePaymentRequestX402Standard, the circuit breaker globals) and      *)
(*   resetCircuitBreaker of the later revision of the same file.           *)
(*                                                                         *)
(* The server is single threaded: a searchNews call runs without           *)
(* interruption between two awaits, and several calls may be suspended at  *)
(* an await at the same time.  One action of the model is one such run of  *)
(* code between awaits.  The calls in flight are a bag of records: calls   *)
(* have no identity beyond what they hold.                                 *)
(*                                                                         *)
(* Spec is the breaker under concurrent calls.  SpecSeq runs one call at a *)
(* time from its caller in src/src/lib/services/newsService.ts and keeps,  *)
(* with the same step functions, what the manual strategy sends, builds    *)
(* and signs, and the errors raised.  SpecNews runs concurrent             *)
(* getNewsByDateString requests over the news cache of                     *)
(* src/src/lib/db/operations/newsOperations.ts.  SpecCache is the          *)
(* browser's NewsCacheService (src/unnamed/part_008).  SpecCodec encodes   *)
(* and decodes the X-PAYMENT header character by character.                *)
(***************************************************************************)
EXTENDS Integers, Sequences, FiniteSets, Bags, TLC

\* ---------------------------------------------------------------- bounds
NumCalls == 2          \* searchNews calls that may be in flight together
TickMs == 30000        \* granularity of Date.now() in the model (ms)
MaxTicks == 2          \* how far the clock advances
StartClock == 60000    \* Date.now() at process start (far beyond the delay)
MaxSigned == 2         \* signatures a run of one caller at a time asks for
NumRequests == 2       \* getNewsByDateString requests in flight at a time
Epoch == 1699999940    \* the second in which Date.now() was 0 on `clock`

\* ------------------------------------------------------ program constants
CIRCUIT_BREAKER_DELAY == 60000
MAX_FAILURES == 3
MaxValue == 1000000    \* BigInt(1.0 * 10 ** 6) handed to wrapFetchWithPayment
ValidAfterSkew == 600          \* validAfter = (now - 600)
DefaultTimeoutSeconds == 3600
MAX_CACHE_ENTRIES == 50  \* maxTimeoutSeconds || 3600

\* amounts (token units) an upstream may ask for in maxAmountRequired
Amounts == {10000, MaxValue + 1}

VARIABLES
    failureCount,      \* let failureCount = 0
    lastFailureTime,   \* let lastFailureTime = 0
    clock,             \* Date.now()
    hasKey,            \* x402Config.payment.privateKey is set
    calls,             \* bag of the searchNews calls in flight
    failedCalls,       \* history: calls that failed since the last success/reset,
                       \* counted up to MAX_FAILURES
    lastAdmit,         \* history: the last step was a searchNews admitted
                       \* "afterCooldown" (failureCount >= MAX_FAILURES) or
                       \* "closed" (failureCount below it), else "none"
    resetFresh,        \* history: "open"/"closed" after a reset of such a
                       \* breaker until the breaker is touched or read, else "no"
    ioWhileOpen,       \* history: the last step started a request or a
                       \* signature while the breaker condition held
    randomDraws,       \* randomBytes(32) calls made so far
    signedLog,         \* history: the nonces of the authorizations handed to
                       \* signTypedData, in order
    paidLog,           \* history: the nonces of the authorizations sent in an
                       \* X-PAYMENT header, in order
    delivered,         \* what getNewsByDateString handed to its caller in the
                       \* last step, else NoDelivery
    cache,             \* the news collection: the document of each key
    paidFor,           \* history: paid fetches that succeeded, for each key
    newsCache,         \* NewsCacheService.cache: its entries in Map order
    codec              \* a paymentPayload, its header and the header decoded

\* the variables only the detailed, one-caller specification moves
dvars == <<randomDraws, signedLog, paidLog, delivered, cache, paidFor,
           newsCache, codec>>

\* the variables only the news cache specification moves
nvars == <<cache, paidFor>>

\* the variables the two news specifications leave alone
cvars == <<newsCache, codec>>

vars == <<failureCount, lastFailureTime, clock, hasKey, calls, failedCalls,
          lastAdmit, resetFresh, ioWhileOpen, randomDraws, signedLog, paidLog,
          delivered, cache, paidFor, newsCache, codec>>

\* ------------------------------------------------------------- responses
NetErr == [status |-> 0, accepts |-> <<>>]

\* what the upstream may answer to the request without payment header
ChallengeResponses ==
    {NetErr}
    \cup {[status |-> s, accepts |-> <<>>] : s \in {200, 402, 500}}
    \cup {[status |-> 402, accepts |-> <<[maxAmountRequired |-> a]>>] : a \in Amounts}

\* what the upstream may answer to the request carrying X-PAYMENT
PaidResponses == {NetErr} \cup {[status |-> s, accepts |-> <<>>] : s \in {200, 402, 500}}

\* --------------------------------------------------------- call records
NewCall(now) ==
    [pc |-> "new",             \* where the call is suspended
     now |-> now,              \* const now = Date.now() of searchNews
     value |-> 0,              \* authorization.value being signed or sent
     outcome |-> "none",       \* how the call ended
     result |-> "none",        \* the strategy whose result is returned
     waitTime |-> 0,           \* seconds named in the cooling-down error
     net |-> 0,                \* requests sent by the running strategy
     signs |-> 0,              \* signatures asked for by the running strategy
     incs |-> 0,               \* failureCount++ executed by the call
     live |-> FALSE,           \* the first of them is still in failureCount
                               \* while the manual strategy runs
     dRuns |-> 0,              \* invocations of searchNewsWithX402Fetch
     mRuns |-> 0,              \* invocations of makePaymentRequestX402Standard
     dRaised |-> FALSE,        \* the delegated strategy raised
     dOk |-> FALSE,            \* the delegated strategy returned
     failedSeen |-> 0,         \* failedCalls when the gate rejected the call
     afterReset |-> FALSE,     \* rejected although a reset had just happened
     prevCount |-> 0,          \* failureCount just before the success
     blockedOther |-> FALSE]   \* a call was rejected on this call's increment

ManualPcs == {"m_challenge", "m_sign", "m_paid"}
IOPcs == {"d_wait"} \cup ManualPcs
InFlight == BagToSet(calls)

\* ------------------------------------------------------- circuit breaker
ShouldBlock_CountOnly(fc, lft, now) == fc >= MAX_FAILURES

ShouldBlock(fc, lft, now) ==
    fc >= MAX_FAILURES /\ (now - lft) < CIRCUIT_BREAKER_DELAY

\* Math.ceil((CIRCUIT_BREAKER_DELAY - (now - lastFailureTime)) / 1000)
WaitTime(lft, now) ==
    LET rem == CIRCUIT_BREAKER_DELAY - (now - lft)
    IN  IF rem % 1000 = 0 THEN rem \div 1000 ELSE (rem \div 1000) + 1

\* --------------------------------------------------------------------------
\* The code between two awaits, as a function of st = [fc, lft, call]:
\* the breaker globals and the record of the running call.
\* --------------------------------------------------------------------------

\* searchNews, inner catch: the manual strategy raised
ManualFailed(st) ==
    [fc |-> st.fc + 1,
     lft |-> st.call.now,
     call |-> [st.call EXCEPT !.pc = "done", !.outcome = "both_failed",
                              !.incs = @ + 1, !.value = 0,
                              !.live = FALSE]]

ManualSucceeded_Decrements(st) ==
    [fc |-> IF st.fc > 0 THEN st.fc - 1 ELSE 0,
     lft |-> st.lft,
     call |-> [st.call EXCEPT !.pc = "done", !.outcome = "ok_manual",
                              !.result = "manual", !.prevCount = st.fc,
                              !.value = 0, !.live = FALSE]]

\* searchNews, inner try: the manual strategy returned a result
ManualSucceeded(st) ==
    [fc |-> 0,
     lft |-> st.lft,
     call |-> [st.call EXCEPT !.pc = "done", !.outcome = "ok_manual",
                              !.result = "manual", !.prevCount = st.fc,
                              !.value = 0, !.live = FALSE]]

\* makePaymentRequestX402Standard up to its first await: the key check, then
\* the request without payment header is sent
StartManual(st) ==
    LET entered == [st EXCEPT !.call.mRuns = @ + 1]
    IN  IF ~hasKey
        THEN ManualFailed(entered)
        ELSE [entered EXCEPT
                !.call.pc = "m_challenge",
                !.call.net = 1,
                !.call.signs = 0]

\* searchNews, outer catch: the delegated strategy raised; the failure is
\* recorded and the manual strategy is started
DelegatedFailed(st) ==
    StartManual([fc |-> st.fc + 1,
                 lft |-> st.call.now,
                 call |-> [st.call EXCEPT !.dRaised = TRUE, !.incs = @ + 1,
                                          !.live = TRUE]])

DelegatedSucceeded_ThenManual(st) ==
    StartManual([fc |-> 0,
                 lft |-> st.lft,
                 call |-> [st.call EXCEPT !.dOk = TRUE, !.prevCount = st.fc]])

\* searchNews, outer try: the delegated strategy returned a result
DelegatedSucceeded(st) ==
    [fc |-> 0,
     lft |-> st.lft,
     call |-> [st.call EXCEPT !.pc = "done", !.outcome = "ok_delegated",
                              !.result = "delegated", !.dOk = TRUE,
                              !.prevCount = st.fc]]

\* searchNewsWithX402Fetch up to its await: the key check, then
\* fetchWithPayment sends the request without payment header
StartDelegated(st) ==
    LET entered == [st EXCEPT !.call.dRuns = @ + 1]
    IN  IF ~hasKey
        THEN DelegatedFailed(entered)
        ELSE [entered EXCEPT !.call.pc = "d_wait", !.call.net = 1]

GateReject_CountsFailure(st) ==
    [fc |-> st.fc + 1,
     lft |-> st.call.now,
     call |-> [st.call EXCEPT !.pc = "done", !.outcome = "cooldown",
                              !.waitTime = WaitTime(st.lft, st.call.now),
                              !.failedSeen = failedCalls,
                              !.afterReset = (resetFresh # "no")]]

\* searchNews: the circuit breaker rejects the call
GateReject(st) ==
    [st EXCEPT !.call.pc = "done",
               !.call.outcome = "cooldown",
               !.call.waitTime = WaitTime(st.lft, st.call.now),
               !.call.failedSeen = failedCalls,
               !.call.afterReset = (resetFresh # "no")]

EnterSearchNews_ForgetsAfterCooldown(st) ==
    IF ShouldBlock(st.fc, st.lft, st.call.now)
    THEN GateReject(st)
    ELSE IF st.fc >= MAX_FAILURES
    THEN StartDelegated([st EXCEPT !.fc = 0])
    ELSE StartDelegated(st)

\* searchNews from its entry to its first await
EnterSearchNews(st) ==
    IF ShouldBlock(st.fc, st.lft, st.call.now)
    THEN GateReject(st)
    ELSE StartDelegated(st)

\* What fetchWithPayment = wrapFetchWithPayment(fetch, walletClient, maxValue)
\* hands back, given the upstream's answer r to the plain request, whether the
\* signer signs, and the upstream's answer p to the paid request.
FetchWithPayment(r, ok, p) ==
    IF r.status = 0 THEN "raise"
    ELSE IF r.status # 402 THEN (IF r.status = 200 THEN "ok" ELSE "not_ok")
    ELSE IF Len(r.accepts) = 0 THEN "raise"
    ELSE IF r.accepts[1].maxAmountRequired > MaxValue THEN "raise"
    ELSE IF ~ok THEN "raise"
    ELSE IF p.status = 0 THEN "raise"
    ELSE IF p.status = 200 THEN "ok" ELSE "not_ok"

\* searchNewsWithX402Fetch after its await: if (!response.ok) throw
DelegatedOnAnswer(st, res) ==
    IF res = "ok" THEN DelegatedSucceeded(st) ELSE DelegatedFailed(st)

\* makePaymentRequestX402Standard after the answer to the request without
\* header: status check, accepts[0], authorization built, signTypedData called
ManualOnChallenge(st, r) ==
    IF r.status # 402 THEN ManualFailed(st)
    ELSE IF Len(r.accepts) = 0 THEN ManualFailed(st)
    ELSE [st EXCEPT !.call.pc = "m_sign",
                    !.call.signs = @ + 1,
                    !.call.value = r.accepts[1].maxAmountRequired]

\* makePaymentRequestX402Standard after signTypedData: header built, the
\* request is sent again with X-PAYMENT
ManualOnSigned(st, ok) ==
    IF ~ok THEN ManualFailed(st)
    ELSE [st EXCEPT !.call.pc = "m_paid", !.call.net = @ + 1]

\* makePaymentRequestX402Standard after the answer to the paid request
ManualOnPaid(st, r) ==
    IF r.status = 200 THEN ManualSucceeded(st) ELSE ManualFailed(st)

\* --------------------------------------------------------------------------
\* State machine
\* --------------------------------------------------------------------------

\* A finished call is handed to its caller before anything else runs: the
\* hand-over changes nothing of the program's state, so no behaviour is lost.
AllRunning == \A r \in InFlight : r.pc # "done"

\* the calls whose first failureCount++ is in failureCount although their
\* manual strategy is still running
Uncommitted ==
    LET pending == {r \in InFlight : r.live}
    IN  BagCardinality([r \in pending |-> CopiesIn(r, calls)])

MarkBlocked(r) == IF r.live THEN [r EXCEPT !.blockedOther = TRUE] ELSE r

\* failureCount = 0 discards the increments of the calls in flight
Wipe(r) == [r EXCEPT !.live = FALSE]

Here(r) == [fc |-> failureCount, lft |-> lastFailureTime, call |-> r]

\* the step from record old to st.call starts a request or a signature
StartsIO(old, st) == st.call.pc \in IOPcs /\ st.call.pc # old.pc

\* history kept with every step of a call
Track(old, st) ==
    /\ failedCalls' =
          IF st.call.outcome = "both_failed"
          THEN (IF failedCalls < MAX_FAILURES THEN failedCalls + 1 ELSE failedCalls)
          ELSE IF st.call.outcome \in {"ok_delegated", "ok_manual"} THEN 0
          ELSE failedCalls
    /\ ioWhileOpen' = (StartsIO(old, st) /\ ShouldBlock(st.fc, st.lft, clock))

\* write back the globals and the record of the call that ran
Commit(old, st) ==
    /\ failureCount' = st.fc
    /\ lastFailureTime' = st.lft
    /\ calls' = LET others == calls (-) SetToBag({old})
                 IN  (IF st.call.outcome \in {"ok_delegated", "ok_manual"}
                      THEN BagOfAll(Wipe, others) ELSE others)
                     (+) SetToBag({st.call})
    /\ Track(old, st)
    /\ resetFresh' = IF st.fc = failureCount /\ st.lft = lastFailureTime
                     THEN resetFresh ELSE "no"
    /\ lastAdmit' = "none"
    /\ UNCHANGED <<clock, hasKey>>

\* getNewsByDateString has handed nothing over: kind is "returned" with the
\* articles or "raised"; upstream is the status of the call's last answer
NoDelivery ==
    [kind |-> "none", articles |-> <<>>, upstream |-> 0, code |-> "",
     outcome |-> "none", cause |-> "", source |-> "", saved |-> ""]

\* JSON values: a string (its UTF-16 code units), a number, or an object
\* (its members in order)
JsonString(chars) ==
    [type |-> "string", chars |-> chars, number |-> 0, members |-> <<>>]

JsonNumber(n) ==
    [type |-> "number", chars |-> <<>>, number |-> n, members |-> <<>>]

JsonObject(members) ==
    [type |-> "object", chars |-> <<>>, number |-> 0, members |-> members]

\* nothing is being encoded
NoCodec ==
    [stage |-> "none", payment |-> JsonObject(<<>>), header |-> <<>>,
     decoded |-> JsonObject(<<>>)]

\* the queries generateNewsQuery builds, one for each (date, timezone): the
\* key of the news cache
Queries == {"q1", "q2"}

\* findOne({date, timezone}) found no document
Absent == [present |-> FALSE, articles |-> <<>>]

\* the document of a key, as far as the news service reads it
Document(articles) == [present |-> TRUE, articles |-> articles]

Init ==
    /\ failureCount = 0
    /\ lastFailureTime = 0
    /\ clock = StartClock
    /\ hasKey \in BOOLEAN
    /\ calls = EmptyBag
    /\ failedCalls = 0
    /\ resetFresh = "no"
    /\ lastAdmit = "none"
    /\ ioWhileOpen = FALSE
    /\ randomDraws = 0
    /\ signedLog = <<>>
    /\ paidLog = <<>>
    /\ delivered = NoDelivery
    /\ cache = [q \in Queries |-> Absent]
    /\ paidFor = [q \in Queries |-> 0]
    /\ newsCache = <<>>
    /\ codec = NoCodec

\* time passes
Tick ==
    /\ AllRunning
    /\ clock + TickMs <= StartClock + MaxTicks * TickMs
    /\ clock' = clock + TickMs
    /\ ioWhileOpen' = FALSE
    /\ lastAdmit' = "none"
    /\ UNCHANGED <<failureCount, lastFailureTime, hasKey, calls, failedCalls, resetFresh>>

\* a caller invokes searchNews; the call runs to its first await.  When the
\* gate rejects it only on account of increments of calls still running their
\* manual strategy, those calls are marked.
searchNews ==
    /\ AllRunning
    /\ BagCardinality(calls) < NumCalls
    /\ LET new == NewCall(clock)
           st == EnterSearchNews(Here(new))
           others == IF /\ st.call.outcome = "cooldown"
                        /\ failureCount - Uncommitted < MAX_FAILURES
                     THEN BagOfAll(MarkBlocked, calls)
                     ELSE calls
       IN  /\ failureCount' = st.fc
           /\ lastFailureTime' = st.lft
           /\ calls' = others (+) SetToBag({st.call})
           /\ Track(new, st)
           /\ lastAdmit' = IF st.call.outcome = "cooldown" THEN "none"
                           ELSE IF failureCount >= MAX_FAILURES THEN "afterCooldown"
                           ELSE "closed"
    /\ resetFresh' = "no"
    /\ UNCHANGED <<clock, hasKey>>

DelegatedReturn(r) ==
    /\ AllRunning
    /\ r.pc = "d_wait"
    /\ \E res \in {FetchWithPayment(c, ok, p) :
                      c \in ChallengeResponses, ok \in BOOLEAN, p \in PaidResponses} :
          Commit(r, DelegatedOnAnswer(Here(r), res))

ManualChallengeResponse(r) ==
    /\ AllRunning
    /\ r.pc = "m_challenge"
    /\ \E st \in {ManualOnChallenge(Here(r), c) : c \in ChallengeResponses} :
          Commit(r, st)

ManualSigned(r) ==
    /\ AllRunning
    /\ r.pc = "m_sign"
    /\ \E ok \in BOOLEAN : Commit(r, ManualOnSigned(Here(r), ok))

ManualPaidResponse(r) ==
    /\ AllRunning
    /\ r.pc = "m_paid"
    /\ \E st \in {ManualOnPaid(Here(r), p) : p \in PaidResponses} :
          Commit(r, st)

\* the caller has taken the result or the error of a finished call
Return(r) ==
    /\ r.pc = "done"
    /\ calls' = calls (-) SetToBag({r})
    /\ ioWhileOpen' = FALSE
    /\ lastAdmit' = "none"
    /\ UNCHANGED <<failureCount, lastFailureTime, clock, hasKey, failedCalls, resetFresh>>

resetCircuitBreaker_KeepsCount ==
    /\ AllRunning
    /\ lastFailureTime' = 0
    /\ failedCalls' = 0
    /\ resetFresh' = IF ShouldBlock(failureCount, lastFailureTime, clock)
                     THEN "open" ELSE "closed"
    /\ ioWhileOpen' = FALSE
    /\ lastAdmit' = "none"
    /\ UNCHANGED <<failureCount, clock, hasKey, calls>>

\* resetCircuitBreaker(), reached by POST /api/reset-circuit
resetCircuitBreaker ==
    /\ AllRunning
    /\ failureCount' = 0
    /\ lastFailureTime' = 0
    /\ failedCalls' = 0
    /\ resetFresh' = IF ShouldBlock(failureCount, lastFailureTime, clock)
                     THEN "open" ELSE "closed"
    /\ ioWhileOpen' = FALSE
    /\ lastAdmit' = "none"
    /\ calls' = BagOfAll(Wipe, calls)
    /\ UNCHANGED <<clock, hasKey>>

Next ==
    \/ Tick /\ UNCHANGED dvars
    \/ searchNews /\ UNCHANGED dvars
    \/ \E r \in InFlight : DelegatedReturn(r) /\ UNCHANGED dvars
    \/ \E r \in InFlight : ManualChallengeResponse(r) /\ UNCHANGED dvars
    \/ \E r \in InFlight : ManualSigned(r) /\ UNCHANGED dvars
    \/ \E r \in InFlight : ManualPaidResponse(r) /\ UNCHANGED dvars
    \/ \E r \in InFlight : Return(r) /\ UNCHANGED dvars
    \/ resetCircuitBreaker /\ UNCHANGED dvars

Spec == Init /\ [][Next]_vars

TypeOK ==
    /\ failureCount \in Nat
    /\ lastFailureTime \in Nat
    /\ lastFailureTime <= clock
    /\ BagCardinality(calls) <= NumCalls
    /\ \A r \in InFlight : r.now <= clock

\* --------------------------------------------------------------------------
\* One caller at a time, in detail: fetchFreshNews calls searchNews, and the
\* call records also hold the requests of the manual strategy, the
\* authorization it builds and signs, and the errors raised on the way.
\* --------------------------------------------------------------------------
\* maxTimeoutSeconds of a requirement; 0 stands for 0 and for an absent field
Timeouts == {0, 120, 7200}

\* JSON.stringify(body)
Stringify(body) == <<"json", body>>

\* Math.floor(Date.now() / 1000), Date.now() being Epoch seconds and ms
NowSeconds(ms) == Epoch + (ms \div 1000)

RECURSIVE Digits(_)
Digits(n) == IF n < 10 THEN <<n>> ELSE Append(Digits(n \div 10), n % 10)

\* (n).toString(): the sign and the decimal digits
NumberToString(n) == [neg |-> n < 0, digits |-> Digits(IF n < 0 THEN 0 - n ELSE n)]

RECURSIVE DigitsValue(_)
DigitsValue(s) ==
    IF Len(s) = 0 THEN 0
    ELSE DigitsValue(SubSeq(s, 1, Len(s) - 1)) * 10 + s[Len(s)]

\* parseInt(str) of such a string
ParseInt(str) ==
    IF str.neg THEN 0 - DigitsValue(str.digits) ELSE DigitsValue(str.digits)

\* `0x${randomBytes(32).toString('hex')}`: the bytes of the draw after `draws`
\* draws.  Two draws of 32 bytes from the CSPRNG are taken to differ.
RandomNonce(draws) == <<"0x", draws + 1>>

\* one entry of accepts in a 402 answer, as far as the strategies read it
Requirement(amount, timeout, payTo) ==
    [maxAmountRequired |-> amount, maxTimeoutSeconds |-> timeout,
     payTo |-> payTo, scheme |-> "exact", network |-> "base"]

NoRequirement == Requirement(0, 0, "")

\* privateKeyToAccount(privateKey).address
AccountAddress == "0xPayer"

NoAuthorization ==
    [from |-> "", to |-> "", value |-> 0,
     validAfter |-> NumberToString(0), validBefore |-> NumberToString(0),
     nonce |-> <<"0x", 0>>]

BuildAuthorization_SharedNonce(req, now, draws) ==
    [from |-> AccountAddress,
     to |-> req.payTo,
     value |-> req.maxAmountRequired,
     validAfter |-> NumberToString(now - ValidAfterSkew),
     validBefore |-> NumberToString(now + (IF req.maxTimeoutSeconds # 0
                                     THEN req.maxTimeoutSeconds
                                     ELSE DefaultTimeoutSeconds)),
     nonce |-> RandomNonce(0)]

BuildAuthorization_FutureStart(req, now, draws) ==
    [from |-> AccountAddress,
     to |-> req.payTo,
     value |-> req.maxAmountRequired,
     validAfter |-> NumberToString(now + ValidAfterSkew),
     validBefore |-> NumberToString(now + (IF req.maxTimeoutSeconds # 0
                                     THEN req.maxTimeoutSeconds
                                     ELSE DefaultTimeoutSeconds)),
     nonce |-> RandomNonce(draws)]

BuildAuthorization_FixedWindow(req, now, draws) ==
    [from |-> AccountAddress,
     to |-> req.payTo,
     value |-> req.maxAmountRequired,
     validAfter |-> NumberToString(now - ValidAfterSkew),
     validBefore |-> NumberToString(now + DefaultTimeoutSeconds),
     nonce |-> RandomNonce(draws)]

\* validAfter, validBefore, nonce and the authorization message of the
\* requirement req, built at now (seconds) after `draws` draws of randomBytes
BuildAuthorization(req, now, draws) ==
    [from |-> AccountAddress,
     to |-> req.payTo,
     value |-> req.maxAmountRequired,
     validAfter |-> NumberToString(now - ValidAfterSkew),
     validBefore |-> NumberToString(now + (IF req.maxTimeoutSeconds # 0
                                     THEN req.maxTimeoutSeconds
                                     ELSE DefaultTimeoutSeconds)),
     nonce |-> RandomNonce(draws)]

\* account.signTypedData({..., message}): the signature of the message
SignTypedData(message) == [signed |-> message]

NoSignature == SignTypedData(NoAuthorization)

PaymentPayload_PaysSecond(version, req, signature, message) ==
    [x402Version |-> version,
     scheme |-> req.scheme,
     network |-> req.network,
     payload |-> [signature |-> signature,
                  authorization |-> [message EXCEPT !.to = "0xOther"]]]

\* paymentPayload: x402Version of the 402 answer, scheme and network of the
\* requirement, the signature, and an authorization written out again from
\* the account, the requirement and the validAfter, validBefore and nonce the
\* message was built from
PaymentPayload(version, req, signature, message) ==
    [x402Version |-> version,
     scheme |-> req.scheme,
     network |-> req.network,
     payload |-> [signature |-> signature,
                  authorization |-> [from |-> AccountAddress,
                                     to |-> req.payTo,
                                     value |-> req.maxAmountRequired,
                                     validAfter |-> message.validAfter,
                                     validBefore |-> message.validBefore,
                                     nonce |-> message.nonce]]]

\* the X-PAYMENT header of a paymentPayload, as the term base64(JSON(.)); the
\* characters of the encoding are EncodePayment below
PaymentHeader(paymentPayload) == <<"base64", <<"json", paymentPayload>>>>

\* the paymentPayload held by a header
HeaderPayload(header) == header[2][2]

\* fetch(endpoint, {method: 'POST', headers, body: JSON.stringify(body)})
PlainRequest(body) ==
    [body |-> Stringify(body), hasPayment |-> FALSE,
     payment |-> PaymentHeader(PaymentPayload(0, NoRequirement, NoSignature,
                                              NoAuthorization))]

PaidRequest(body, header) ==
    [body |-> Stringify(body), hasPayment |-> TRUE, payment |-> header]

\* ------------------------------------------------------------------ errors
Error(text, status, body) ==
    [text |-> text, status |-> status, body |-> body, causes |-> {}]

NoError == Error("", 0, "")
KeyRequiredError == Error("X402_PRIVATE_KEY is required", 0, "")
FetchFailedError == Error("fetch failed", 0, "")
TypeError == Error("Cannot read properties of undefined", 0, "")
SignError == Error("signTypedData failed", 0, "")
LibraryError == Error("x402-fetch error", 0, "")
Expected402Error(status) == Error("Expected 402 Payment Required, got", status, "")
PaymentFailedError(status, raw) == Error("Payment failed", status, raw)
FirecrawlApiError(status, raw) == Error("Firecrawl API error", status, raw)
CoolingDownError(waitTime) == Error("Payment system cooling down", waitTime, "")

\* new Error(`Both x402-fetch and manual payment approaches failed. System
\* will pause for ${CIRCUIT_BREAKER_DELAY/1000}s ...`): the two caught
\* errors are logged, not attached
BothFailedError(error, manualError) ==
    Error("Both x402-fetch and manual payment approaches failed",
          CIRCUIT_BREAKER_DELAY \div 1000, "")

\* --------------------------------------------------------------- responses
NoData == [success |-> FALSE, articles |-> <<>>]

\* the JSON of a 200 answer, as far as fetchFreshNews reads it
Data200 ==
    {NoData, [success |-> TRUE, articles |-> <<>>],
     [success |-> TRUE, articles |-> <<"a1">>]}

Answer(status, accepts, json, raw) ==
    [status |-> status, accepts |-> accepts, json |-> json, raw |-> raw,
     x402Version |-> IF status = 402 /\ raw = "" THEN 1 ELSE 0]

Answers200 == {Answer(200, <<>>, j, "") : j \in Data200}

\* answers to the request without payment header; a 402 without requirements
\* has no accepts field ("{}") or an empty one
DetailedChallenges ==
    {Answer(0, <<>>, NoData, ""), Answer(500, <<>>, NoData, "{error}")}
    \cup Answers200
    \cup {Answer(402, <<>>, NoData, raw) : raw \in {"{}", "{accepts:[]}"}}
    \cup {Answer(402, <<Requirement(a, t, "0xMerchant")>>, NoData, "")
            : a \in Amounts, t \in Timeouts}
    \cup {Answer(402, <<Requirement(10000, 120, "0xMerchant"),
                        Requirement(20000, 120, "0xOther")>>, NoData, "")}

\* answers to the request carrying X-PAYMENT
DetailedPaid ==
    {Answer(0, <<>>, NoData, ""), Answer(500, <<>>, NoData, "{error}")}
    \cup Answers200
    \cup {Answer(402, <<>>, NoData, raw) : raw \in {"{}", "{error}"}}

\* ------------------------------------------------------------ call records
DetailedCall(now, q) ==
    NewCall(now) @@
    [query |-> q,                      \* the body both strategies post
     sent |-> <<>>,                    \* requests of the manual strategy
     cStatus |-> 0,                    \* status answered to its first request
     cAccepts |-> 0,                   \* length of accepts in that answer
     offered |-> <<>>,                 \* accepts of that answer
     version |-> 0,                    \* x402Version of that answer
     lastStatus |-> 0,                 \* status of the last answer received
     requirement |-> NoRequirement,    \* accepts[0]
     builtAt |-> 0,                    \* now of the authorization
     authorization |-> NoAuthorization,
     signature |-> NoSignature,
     data |-> NoData,                  \* the JSON the call returns
     dError |-> NoError,               \* raised by the delegated strategy
     mError |-> NoError,               \* raised by the manual strategy
     raised |-> NoError,               \* raised by searchNews
     paid |-> 0,                       \* paid requests answered with 200
     found |-> "pending"]              \* what the cache lookup found

\* searchNews from its entry to its first await
EnterDetailed(st) ==
    LET s == EnterSearchNews(st)
        c == s.call
    IN  [s EXCEPT !.call =
            IF c.outcome = "cooldown"
            THEN [c EXCEPT !.raised = CoolingDownError(c.waitTime)]
            ELSE IF c.outcome = "both_failed"
            THEN [c EXCEPT !.dError = KeyRequiredError,
                           !.mError = KeyRequiredError,
                           !.raised = BothFailedError(KeyRequiredError,
                                                      KeyRequiredError)]
            ELSE c]

\* searchNewsWithX402Fetch after its await, then searchNews up to its next
\* await: c and p are the upstream's answers to the library's requests
DelegatedDetailed(st, c, ok, p) ==
    LET res == FetchWithPayment(c, ok, p)
        paidUp == /\ c.status = 402 /\ Len(c.accepts) > 0
                  /\ c.accepts[1].maxAmountRequired <= MaxValue /\ ok
        last == IF paidUp THEN p ELSE c
        s == DelegatedOnAnswer(st, res)
        seen == [s.call EXCEPT !.lastStatus = last.status]
    IN  [s EXCEPT !.call =
            IF res = "ok"
            THEN [seen EXCEPT !.data = last.json,
                              !.paid = IF paidUp THEN 1 ELSE 0]
            ELSE [seen EXCEPT
                    !.dError = IF res = "not_ok"
                               THEN FirecrawlApiError(last.status, last.raw)
                               ELSE LibraryError,
                    !.sent = <<PlainRequest(seen.query)>>]]

ChallengeDetailed_SignsAnyway(st, c) ==
    LET req == IF Len(c.accepts) = 0 THEN NoRequirement ELSE c.accepts[1]
        s == IF c.status = 402
             THEN [st EXCEPT !.call.pc = "m_sign", !.call.signs = @ + 1,
                             !.call.value = req.maxAmountRequired]
             ELSE ManualFailed(st)
        seen == [s.call EXCEPT !.cStatus = c.status,
                               !.cAccepts = Len(c.accepts),
                               !.offered = c.accepts,
                               !.version = c.x402Version,
                               !.lastStatus = c.status]
        mErr == IF c.status = 0 THEN FetchFailedError
                ELSE Expected402Error(c.status)
    IN  [s EXCEPT !.call =
            IF seen.pc = "m_sign"
            THEN [seen EXCEPT
                    !.requirement = req,
                    !.builtAt = NowSeconds(clock),
                    !.authorization =
                        BuildAuthorization(req, NowSeconds(clock), randomDraws)]
            ELSE [seen EXCEPT !.mError = mErr,
                              !.raised = BothFailedError(seen.dError, mErr)]]

\* makePaymentRequestX402Standard after the answer to its first request
ChallengeDetailed(st, c) ==
    LET s == ManualOnChallenge(st, c)
        seen == [s.call EXCEPT !.cStatus = c.status,
                               !.cAccepts = Len(c.accepts),
                               !.offered = c.accepts,
                               !.version = c.x402Version,
                               !.lastStatus = c.status]
        mErr == IF c.status = 0 THEN FetchFailedError
                ELSE IF c.status # 402 THEN Expected402Error(c.status)
                ELSE TypeError
    IN  [s EXCEPT !.call =
            IF seen.pc = "m_sign"
            THEN [seen EXCEPT
                    !.requirement = c.accepts[1],
                    !.builtAt = NowSeconds(clock),
                    !.authorization =
                        BuildAuthorization(c.accepts[1], NowSeconds(clock),
                                           randomDraws)]
            ELSE [seen EXCEPT !.mError = mErr,
                              !.raised = BothFailedError(seen.dError, mErr)]]

SignedDetailed_Unawaited(st, ok) ==
    LET s == ManualOnSigned(st, TRUE)
        c == s.call
    IN  [s EXCEPT !.call.sent =
            Append(@, PaidRequest(c.query,
                   PaymentHeader(PaymentPayload(c.version, c.requirement,
                                                NoSignature, c.authorization))))]

\* makePaymentRequestX402Standard after signTypedData
SignedDetailed(st, ok) ==
    LET s == ManualOnSigned(st, ok)
        c == s.call
        sig == SignTypedData(c.authorization)
    IN  [s EXCEPT !.call =
            IF c.pc = "m_paid"
            THEN [c EXCEPT
                    !.signature = sig,
                    !.sent = Append(@, PaidRequest(c.query,
                       PaymentHeader(PaymentPayload(c.version, c.requirement,
                                                    sig, c.authorization))))]
            ELSE [c EXCEPT !.mError = SignError,
                           !.raised = BothFailedError(c.dError, SignError)]]

PaidDetailed_Resends(st, p) ==
    LET s == ManualOnPaid(st, p)
        c == [s.call EXCEPT !.lastStatus = p.status]
        mErr == IF p.status = 0 THEN FetchFailedError
                ELSE PaymentFailedError(p.status, p.raw)
    IN  IF p.status = 402 /\ Len(st.call.sent) < 3
        THEN [st EXCEPT !.call.sent = Append(@, @[Len(@)]),
                        !.call.net = @ + 1,
                        !.call.lastStatus = p.status]
        ELSE [s EXCEPT !.call =
                IF c.outcome = "ok_manual"
                THEN [c EXCEPT !.data = p.json, !.paid = 1]
                ELSE [c EXCEPT !.mError = mErr,
                               !.raised = BothFailedError(c.dError, mErr)]]

\* makePaymentRequestX402Standard after the answer to the paid request
PaidDetailed(st, p) ==
    LET s == ManualOnPaid(st, p)
        c == [s.call EXCEPT !.lastStatus = p.status]
        mErr == IF p.status = 0 THEN FetchFailedError
                ELSE PaymentFailedError(p.status, p.raw)
    IN  [s EXCEPT !.call =
            IF c.outcome = "ok_manual"
            THEN [c EXCEPT !.data = p.json, !.paid = 1]
            ELSE [c EXCEPT !.mError = mErr,
                           !.raised = BothFailedError(c.dError, mErr)]]

\* ------------------------------------------------------------ newsService
\* error.message of the errors searchNews raises, word by word; a number
\* interpolated into the message is left as its template expression
Message(error) ==
    IF error.text = "Payment system cooling down"
    THEN <<"Payment", "system", "cooling", "down.", "Please", "wait",
           "${waitTime}", "seconds", "before", "retrying.", "This",
           "prevents", "rapid", "API", "calls", "to", "Firecrawl.">>
    ELSE IF error.text = "Both x402-fetch and manual payment approaches failed"
    THEN <<"Both", "x402-fetch", "and", "manual", "payment", "approaches",
           "failed.", "System", "will", "pause", "for",
           "${CIRCUIT_BREAKER_DELAY/1000}s", "to", "prevent", "rapid", "API",
           "calls.">>
    ELSE <<error.text>>

\* message.includes(word), for a word none of the other words contains:
\* the comparison is case-sensitive
Includes(message, word) == \E i \in 1..Len(message) : message[i] = word

\* the strategy error behind an error of searchNews (logged by searchNews)
Cause(call) == call.mError.text

fetchFreshNews_EmptyOnError(call) ==
    IF call.outcome \notin {"ok_delegated", "ok_manual"} \/ ~call.data.success
    THEN [kind |-> "returned", articles |-> <<>>, upstream |-> call.lastStatus,
          code |-> "", outcome |-> call.outcome, cause |-> Cause(call)]
    ELSE [kind |-> "returned", articles |-> call.data.articles,
          upstream |-> call.lastStatus, code |-> "", outcome |-> call.outcome,
          cause |-> Cause(call)]

fetchFreshNews_AnyCase(call) ==
    IF call.outcome \notin {"ok_delegated", "ok_manual"}
    THEN [kind |-> "raised", articles |-> <<>>, upstream |-> call.lastStatus,
          code |-> IF \/ Includes(Message(call.raised), "payment")
                      \/ Includes(Message(call.raised), "Payment")
                   THEN "PAYMENT_FAILED" ELSE "FIRECRAWL_ERROR",
          outcome |-> call.outcome, cause |-> Cause(call)]
    ELSE IF ~call.data.success
    THEN [kind |-> "raised", articles |-> <<>>, upstream |-> call.lastStatus,
          code |-> "FIRECRAWL_ERROR", outcome |-> call.outcome,
          cause |-> Cause(call)]
    ELSE [kind |-> "returned", articles |-> call.data.articles,
          upstream |-> call.lastStatus, code |-> "", outcome |-> call.outcome,
          cause |-> Cause(call)]

\* fetchFreshNews once searchNews has ended: an error of searchNews is raised
\* as NewsServiceError, PAYMENT_FAILED when its message includes 'payment'
\* and FIRECRAWL_ERROR when not; an unsuccessful response is raised as
\* FIRECRAWL_ERROR; else the articles read from the response are returned
fetchFreshNews(call) ==
    IF call.outcome \notin {"ok_delegated", "ok_manual"}
    THEN [kind |-> "raised", articles |-> <<>>, upstream |-> call.lastStatus,
          code |-> IF Includes(Message(call.raised), "payment")
                   THEN "PAYMENT_FAILED" ELSE "FIRECRAWL_ERROR",
          outcome |-> call.outcome, cause |-> Cause(call)]
    ELSE IF ~call.data.success
    THEN [kind |-> "raised", articles |-> <<>>, upstream |-> call.lastStatus,
          code |-> "FIRECRAWL_ERROR", outcome |-> call.outcome,
          cause |-> Cause(call)]
    ELSE [kind |-> "returned", articles |-> call.data.articles,
          upstream |-> call.lastStatus, code |-> "", outcome |-> call.outcome,
          cause |-> Cause(call)]

\* getNewsByDateString after a cache miss: freshArticles are returned, a
\* NewsServiceError is raised on
getNewsByDateString(fresh) ==
    (IF fresh.kind = "raised"
     THEN [fresh EXCEPT !.articles = <<>>]
     ELSE fresh) @@ [source |-> "fetch", saved |-> ""]

\* ----------------------------------------------------------- state machine
\* fetchFreshNews calls searchNews(query, ...); the call runs to its first
\* await
CallerFetch ==
    /\ calls = EmptyBag
    /\ Len(signedLog) < MaxSigned
    /\ \E q \in Queries :
          LET new == DetailedCall(clock, q)
          IN  Commit(new, EnterDetailed(Here(new)))
    /\ delivered' = NoDelivery
    /\ UNCHANGED <<randomDraws, signedLog, paidLog>>

SeqTick ==
    /\ Tick
    /\ delivered' = NoDelivery
    /\ UNCHANGED <<randomDraws, signedLog, paidLog>>

SeqDelegatedReturn(r) ==
    /\ r.pc = "d_wait"
    /\ \E st \in {DelegatedDetailed(Here(r), c, ok, p) :
                     c \in DetailedChallenges, ok \in BOOLEAN, p \in DetailedPaid} :
          Commit(r, st)
    /\ delivered' = NoDelivery
    /\ UNCHANGED <<randomDraws, signedLog, paidLog>>

\* the answer to the first request of the manual strategy; when an
\* authorization is built, randomBytes is drawn and signTypedData is called
SeqChallengeResponse(r) ==
    /\ r.pc = "m_challenge"
    /\ \E c \in DetailedChallenges :
          LET st == ChallengeDetailed(Here(r), c)
              built == st.call.pc = "m_sign"
          IN  /\ Commit(r, st)
              /\ randomDraws' = IF built THEN randomDraws + 1 ELSE randomDraws
              /\ signedLog' = IF built
                              THEN Append(signedLog, st.call.authorization.nonce)
                              ELSE signedLog
    /\ delivered' = NoDelivery
    /\ UNCHANGED paidLog

\* signTypedData has ended; when it signed, the paid request is sent
SeqSigned(r) ==
    /\ r.pc = "m_sign"
    /\ \E ok \in BOOLEAN :
          LET st == SignedDetailed(Here(r), ok)
              sent == st.call.sent
          IN  /\ Commit(r, st)
              /\ paidLog' =
                    IF st.call.pc = "m_paid"
                    THEN Append(paidLog,
                           HeaderPayload(sent[Len(sent)].payment).payload.authorization.nonce)
                    ELSE paidLog
    /\ delivered' = NoDelivery
    /\ UNCHANGED <<randomDraws, signedLog>>

SeqPaidResponse(r) ==
    /\ r.pc = "m_paid"
    /\ \E p \in DetailedPaid : Commit(r, PaidDetailed(Here(r), p))
    /\ delivered' = NoDelivery
    /\ UNCHANGED <<randomDraws, signedLog, paidLog>>

\* searchNews has ended: fetchFreshNews and getNewsByDateString run on
Deliver(r) ==
    /\ r.pc = "done"
    /\ calls' = calls (-) SetToBag({r})
    /\ delivered' = getNewsByDateString(fetchFreshNews(r))
    /\ ioWhileOpen' = FALSE
    /\ lastAdmit' = "none"
    /\ UNCHANGED <<failureCount, lastFailureTime, clock, hasKey, failedCalls,
                   resetFresh, randomDraws, signedLog, paidLog>>

NextSeq ==
    \/ SeqTick /\ UNCHANGED <<nvars, cvars>>
    \/ CallerFetch /\ UNCHANGED <<nvars, cvars>>
    \/ \E r \in InFlight : SeqDelegatedReturn(r) /\ UNCHANGED <<nvars, cvars>>
    \/ \E r \in InFlight : SeqChallengeResponse(r) /\ UNCHANGED <<nvars, cvars>>
    \/ \E r \in InFlight : SeqSigned(r) /\ UNCHANGED <<nvars, cvars>>
    \/ \E r \in InFlight : SeqPaidResponse(r) /\ UNCHANGED <<nvars, cvars>>
    \/ \E r \in InFlight : Deliver(r) /\ UNCHANGED <<nvars, cvars>>

SpecSeq == Init /\ [][NextSeq]_vars

\* --------------------------------------------------------------------------
\* The news service over its cache: concurrent getNewsByDateString requests.
\* A request is the record of its searchNews call, with pc "lookup" while it
\* awaits getNewsByDate and "save" while it awaits saveNewsForDate.  The
\* cache key is (date, timezone), as newsService.ts passes it; the location
\* parameter of newsOperations.ts belongs to a later revision.
\* --------------------------------------------------------------------------
\* the keys requests are made for; the documents of the other keys stand by
RequestedKeys == {"q1"}

\* the collection at start: a requested key has no document, a document
\* without articles, or a document with articles
InitialCaches ==
    {store \in [Queries -> {Absent, Document(<<>>), Document(<<"a0">>)}] :
        \A q \in Queries \ RequestedKeys : store[q] = Document(<<"a0">>)}

\* getNewsByDate(date, timezone): findOne by the key
getNewsByDate(store, q) == store[q]

\* saveNewsForDate: replaceOne(key, newsDocument, {upsert: true})
saveNewsForDate(store, q, articles) ==
    [store EXCEPT ![q] = Document(articles)]

IsHit_Never(doc) == FALSE

\* existingNews && existingNews.articles.length > 0
IsHit(doc) == doc.present /\ Len(doc.articles) > 0

ShouldCache_AnyResult(fresh) == fresh.kind = "returned"

\* freshArticles.length > 0, once fetchFreshNews returned
ShouldCache(fresh) == fresh.kind = "returned" /\ Len(fresh.articles) > 0

\* new NewsServiceError(code, ...) raised by getNewsByDateString itself
NewsServiceError(code) ==
    [NoDelivery EXCEPT !.kind = "raised", !.code = code]

cacheNewsData_Throws(fresh, saved) ==
    IF saved
    THEN [getNewsByDateString(fresh) EXCEPT !.saved = "ok"]
    ELSE [NewsServiceError("DATABASE_ERROR") EXCEPT !.saved = "failed"]

\* getNewsByDateString from `await cacheNewsData(...)` on: an error of
\* saveNewsForDate is caught and logged in cacheNewsData, and freshArticles
\* are returned
cacheNewsData(fresh, saved) ==
    [getNewsByDateString(fresh) EXCEPT
        !.saved = IF saved THEN "ok" ELSE "failed"]

\* the answers of the upstream in this specification
NewsChallenges ==
    {Answer(0, <<>>, NoData, ""),
     Answer(402, <<Requirement(10000, 120, "0xMerchant")>>, NoData, "")}

NewsPaid ==
    {Answer(200, <<>>, [success |-> TRUE, articles |-> a], "")
        : a \in {<<>>, <<"a1">>}}
    \cup {Answer(402, <<>>, NoData, "{}")}

\* remove request r, handing d to its caller
Hand(r, d) ==
    /\ calls' = calls (-) SetToBag({r})
    /\ delivered' = d

InitNews ==
    /\ failureCount = 0
    /\ lastFailureTime = 0
    /\ clock = StartClock
    /\ hasKey \in BOOLEAN
    /\ calls = EmptyBag
    /\ failedCalls = 0
    /\ resetFresh = "no"
    /\ lastAdmit = "none"
    /\ ioWhileOpen = FALSE
    /\ randomDraws = 0
    /\ signedLog = <<>>
    /\ paidLog = <<>>
    /\ delivered = NoDelivery
    /\ cache \in InitialCaches
    /\ paidFor = [q \in Queries |-> 0]
    /\ newsCache = <<>>
    /\ codec = NoCodec

\* getNewsByDateString(date, timezone) up to its first await: an invalid
\* date is raised at once, else getNewsByDate is awaited
NewsRequest ==
    /\ AllRunning
    /\ BagCardinality(calls) < NumRequests
    /\ randomDraws < MaxSigned
    /\ \E q \in RequestedKeys, valid \in BOOLEAN :
          IF valid
          THEN /\ calls' = calls (+) SetToBag({[DetailedCall(0, q)
                                                 EXCEPT !.pc = "lookup"]})
               /\ delivered' = NoDelivery
          ELSE /\ calls' = calls
               /\ delivered' = NewsServiceError("INVALID_DATE")
    /\ UNCHANGED <<failureCount, lastFailureTime, clock, hasKey, failedCalls,
                   resetFresh, lastAdmit, ioWhileOpen, randomDraws, signedLog,
                   paidLog, cache, paidFor>>

\* getNewsByDate raised: getNewsByDateString raises DATABASE_ERROR
LookupFails(r) ==
    /\ AllRunning
    /\ r.pc = "lookup"
    /\ Hand(r, NewsServiceError("DATABASE_ERROR"))
    /\ UNCHANGED <<failureCount, lastFailureTime, clock, hasKey, failedCalls,
                   resetFresh, lastAdmit, ioWhileOpen, randomDraws, signedLog,
                   paidLog, cache, paidFor>>

\* getNewsByDate returned a document with articles: they are returned
LookupHit(r) ==
    /\ AllRunning
    /\ r.pc = "lookup"
    /\ IsHit(getNewsByDate(cache, r.query))
    /\ Hand(r, [NoDelivery EXCEPT
                    !.kind = "returned",
                    !.articles = getNewsByDate(cache, r.query).articles,
                    !.source = "cache"])
    /\ UNCHANGED <<failureCount, lastFailureTime, clock, hasKey, failedCalls,
                   resetFresh, lastAdmit, ioWhileOpen, randomDraws, signedLog,
                   paidLog, cache, paidFor>>

\* getNewsByDate returned nothing to use: fetchFreshNews calls searchNews,
\* which runs to its first await
LookupMiss(r) ==
    /\ AllRunning
    /\ r.pc = "lookup"
    /\ ~IsHit(getNewsByDate(cache, r.query))
    /\ LET doc == getNewsByDate(cache, r.query)
           new == [r EXCEPT !.pc = "new", !.now = clock,
                            !.found = IF ~doc.present THEN "absent"
                                      ELSE IF Len(doc.articles) = 0
                                      THEN "empty" ELSE "articles"]
       IN  Commit(r, EnterDetailed(Here(new)))
    /\ delivered' = NoDelivery
    /\ UNCHANGED <<randomDraws, signedLog, paidLog, cache, paidFor>>

NewsDelegatedReturn(r) ==
    /\ AllRunning
    /\ r.pc = "d_wait"
    /\ \E st \in {DelegatedDetailed(Here(r), c, TRUE, p) :
                     c \in {a \in NewsChallenges : a.status = 402},
                     p \in NewsPaid} :
          Commit(r, st)
    /\ delivered' = NoDelivery
    /\ UNCHANGED <<randomDraws, signedLog, paidLog, cache, paidFor>>

NewsChallengeResponse(r) ==
    /\ AllRunning
    /\ r.pc = "m_challenge"
    /\ \E c \in NewsChallenges :
          LET st == ChallengeDetailed(Here(r), c)
          IN  /\ Commit(r, st)
              /\ randomDraws' = IF st.call.pc = "m_sign"
                                THEN randomDraws + 1 ELSE randomDraws
    /\ delivered' = NoDelivery
    /\ UNCHANGED <<signedLog, paidLog, cache, paidFor>>

NewsSigned(r) ==
    /\ AllRunning
    /\ r.pc = "m_sign"
    /\ Commit(r, SignedDetailed(Here(r), TRUE))
    /\ delivered' = NoDelivery
    /\ UNCHANGED <<randomDraws, signedLog, paidLog, cache, paidFor>>

NewsPaidResponse(r) ==
    /\ AllRunning
    /\ r.pc = "m_paid"
    /\ \E p \in NewsPaid : Commit(r, PaidDetailed(Here(r), p))
    /\ delivered' = NoDelivery
    /\ UNCHANGED <<randomDraws, signedLog, paidLog, cache, paidFor>>

\* searchNews has ended: fetchFreshNews runs on, then getNewsByDateString up
\* to `await cacheNewsData(...)` or to its end
SearchEnded(r) ==
    /\ r.pc = "done"
    /\ LET fresh == fetchFreshNews(r)
       IN  IF ShouldCache(fresh)
           THEN /\ calls' = (calls (-) SetToBag({r}))
                               (+) SetToBag({[r EXCEPT !.pc = "save"]})
                /\ delivered' = NoDelivery
           ELSE Hand(r, getNewsByDateString(fresh))
    /\ paidFor' = [paidFor EXCEPT ![r.query] =
                      IF @ + r.paid > 2 THEN 2 ELSE @ + r.paid]
    /\ ioWhileOpen' = FALSE
    /\ lastAdmit' = "none"
    /\ UNCHANGED <<failureCount, lastFailureTime, clock, hasKey, failedCalls,
                   resetFresh, randomDraws, signedLog, paidLog, cache>>

\* saveNewsForDate has ended, with the document written or with an error
SaveReturn(r) ==
    /\ AllRunning
    /\ r.pc = "save"
    /\ \E saved \in BOOLEAN :
          /\ cache' = IF saved
                      THEN saveNewsForDate(cache, r.query,
                                           fetchFreshNews(r).articles)
                      ELSE cache
          /\ Hand(r, cacheNewsData(fetchFreshNews(r), saved))
    /\ UNCHANGED <<failureCount, lastFailureTime, clock, hasKey, failedCalls,
                   resetFresh, lastAdmit, ioWhileOpen, randomDraws, signedLog,
                   paidLog, paidFor>>

NextNews ==
    \/ NewsRequest /\ UNCHANGED cvars
    \/ \E r \in InFlight : LookupFails(r) /\ UNCHANGED cvars
    \/ \E r \in InFlight : LookupHit(r) /\ UNCHANGED cvars
    \/ \E r \in InFlight : LookupMiss(r) /\ UNCHANGED cvars
    \/ \E r \in InFlight : NewsDelegatedReturn(r) /\ UNCHANGED cvars
    \/ \E r \in InFlight : NewsChallengeResponse(r) /\ UNCHANGED cvars
    \/ \E r \in InFlight : NewsSigned(r) /\ UNCHANGED cvars
    \/ \E r \in InFlight : NewsPaidResponse(r) /\ UNCHANGED cvars
    \/ \E r \in InFlight : SearchEnded(r) /\ UNCHANGED cvars
    \/ \E r \in InFlight : SaveReturn(r) /\ UNCHANGED cvars

SpecNews == InitNews /\ [][NextNews]_vars

\* --------------------------------------------------------------------------
\* The browser's NewsCacheService: a Map of cache entries, its restoration
\* from localStorage, and cacheNews with its eviction.  Entries are held in
\* the insertion order of the Map, as far as key and timestamp.
\* --------------------------------------------------------------------------
CacheEntry(key, timestamp) == [key |-> key, timestamp |-> timestamp]

\* numbers of entries localStorage holds when the page is loaded
LoadedSizes == {0, 49, 50, 63, 70}

\* keys cacheNews is called with: one that is loaded whenever something is,
\* and one that is not
CacheKeys == {1, 99}

\* loadFromLocalStorage: every stored entry is set, in stored order; entries
\* still valid, with timestamps rising or falling in that order
loadFromLocalStorage(n, order) ==
    [i \in 1..n |-> CacheEntry(i, IF order = "rising" THEN i ELSE n + 1 - i)]

\* this.cache.set(key, entry): an entry of the key is replaced in place
MapSet(entries, entry) ==
    IF \E i \in 1..Len(entries) : entries[i].key = entry.key
    THEN [i \in 1..Len(entries) |->
            IF entries[i].key = entry.key THEN entry ELSE entries[i]]
    ELSE Append(entries, entry)

\* the place of entries[i] once the entries are sorted by timestamp, entries
\* of equal timestamp staying in their order
Rank(entries, i) ==
    1 + Cardinality({j \in 1..Len(entries) :
                        \/ entries[j].timestamp < entries[i].timestamp
                        \/ /\ entries[j].timestamp = entries[i].timestamp
                           /\ j < i})

\* entries.sort((a, b) => a[1].timestamp - b[1].timestamp): a stable sort
SortByTimestamp(entries) ==
    [r \in 1..Len(entries) |->
        entries[CHOOSE i \in 1..Len(entries) : Rank(entries, i) = r]]

\* Math.ceil(entries.length * 0.2); the double product rounds to the exact
\* fifth for every length below 130
ToRemove(length) == (length + 4) \div 5

\* this.cache.delete(key) for the keys in gone: the other entries keep
\* their order
MapDelete(entries, gone) ==
    LET kept == {i \in 1..Len(entries) : entries[i].key \notin gone}
    IN  [r \in 1..Cardinality(kept) |->
            entries[CHOOSE i \in kept :
                        Cardinality({j \in kept : j <= i}) = r]]

\* evictOldestEntries, up to its saveToLocalStorage
evictOldestEntries(entries) ==
    LET sorted == SortByTimestamp(entries)
        gone == {sorted[i].key : i \in 1..ToRemove(Len(entries))}
    IN  MapDelete(entries, gone)

\* saveToLocalStorage when setItem raises QuotaExceededError `quota` times
\* in a row: each time evictOldestEntries runs and the save is tried again
RECURSIVE saveToLocalStorage(_, _)
saveToLocalStorage(entries, quota) ==
    IF quota = 0 THEN entries
    ELSE saveToLocalStorage(evictOldestEntries(entries), quota - 1)

\* the Map after cacheNews(date, timezone, articles) at time now
CacheAfter(entries, key, now, quota) ==
    LET set == MapSet(entries, CacheEntry(key, now))
        kept == IF Len(set) > MAX_CACHE_ENTRIES
                THEN evictOldestEntries(set) ELSE set
    IN  saveToLocalStorage(kept, quota)

\* the page is loaded: new NewsCacheService()
InitCache ==
    /\ failureCount = 0
    /\ lastFailureTime = 0
    /\ clock = StartClock
    /\ hasKey \in BOOLEAN
    /\ calls = EmptyBag
    /\ failedCalls = 0
    /\ resetFresh = "no"
    /\ lastAdmit = "none"
    /\ ioWhileOpen = FALSE
    /\ randomDraws = 0
    /\ signedLog = <<>>
    /\ paidLog = <<>>
    /\ delivered = NoDelivery
    /\ cache = [q \in Queries |-> Absent]
    /\ paidFor = [q \in Queries |-> 0]
    /\ newsCache \in {loadFromLocalStorage(n, order) :
                        n \in LoadedSizes, order \in {"rising", "falling"}}
    /\ codec = NoCodec

CacheTick == Tick /\ UNCHANGED dvars

cacheNews ==
    /\ \E key \in CacheKeys, quota \in {0, 1} :
          newsCache' = CacheAfter(newsCache, key, clock, quota)
    /\ UNCHANGED <<failureCount, lastFailureTime, clock, hasKey, calls,
                   failedCalls, lastAdmit, resetFresh, ioWhileOpen, randomDraws,
                   signedLog, paidLog, delivered, cache, paidFor, codec>>

NextCache ==
    \/ CacheTick
    \/ cacheNews

SpecCache == InitCache /\ [][NextCache]_vars

\* --------------------------------------------------------------------------
\* The X-PAYMENT header, character by character: JSON.stringify, the UTF-8
\* bytes of Buffer.from(string), toString('base64'), and back through
\* Buffer.from(header, 'base64'), toString('utf8') and JSON.parse.  Strings
\* are sequences of code units below 2048, bytes are numbers below 256, and a
\* header is a sequence of ASCII codes.
\* --------------------------------------------------------------------------
Member(key, value) == [key |-> key, value |-> value]

\* the keys of a paymentPayload
KeyNames ==
    [x402Version |-> <<120, 52, 48, 50, 86, 101, 114, 115, 105, 111, 110>>,
     scheme |-> <<115, 99, 104, 101, 109, 101>>,
     network |-> <<110, 101, 116, 119, 111, 114, 107>>,
     payload |-> <<112, 97, 121, 108, 111, 97, 100>>,
     signature |-> <<115, 105, 103, 110, 97, 116, 117, 114, 101>>,
     authorization |-> <<97, 117, 116, 104, 111, 114, 105, 122, 97, 116, 105, 111, 110>>,
     from |-> <<102, 114, 111, 109>>,
     to |-> <<116, 111>>,
     value |-> <<118, 97, 108, 117, 101>>,
     validAfter |-> <<118, 97, 108, 105, 100, 65, 102, 116, 101, 114>>,
     validBefore |-> <<118, 97, 108, 105, 100, 66, 101, 102, 111, 114, 101>>,
     nonce |-> <<110, 111, 110, 99, 101>>]

\* a paymentPayload whose values are strings, x402Version a number
SignedPayment(version, signature, to, value, nonce) ==
    JsonObject(<<
        Member(KeyNames.x402Version, JsonNumber(version)),
        Member(KeyNames.scheme, JsonString(<<101, 120, 97, 99, 116>>)),
        Member(KeyNames.network, JsonString(<<98, 97, 115, 101>>)),
        Member(KeyNames.payload, JsonObject(<<
            Member(KeyNames.signature, JsonString(signature)),
            Member(KeyNames.authorization, JsonObject(<<
                Member(KeyNames.from, JsonString(<<48, 120, 80>>)),
                Member(KeyNames.to, JsonString(to)),
                Member(KeyNames.value, JsonString(value)),
                Member(KeyNames.validAfter, JsonString(<<49, 54, 57, 57, 57, 57, 57, 51, 52, 48>>)),
                Member(KeyNames.validBefore, JsonString(<<49, 55, 48, 48, 48, 48, 48, 48, 54, 48>>)),
                Member(KeyNames.nonce, JsonString(nonce))>>))>>))>>)

\* the payloads encoded: hexadecimal and decimal strings as the code builds
\* them, and strings with a quote, a backslash, a control character, a
\* character outside ASCII, or no character
SignedPayments ==
    {SignedPayment(version, signature, to, value, nonce) :
        version \in {1, 2},
        signature \in {<<48, 120, 97, 98>>, <<97, 34, 98, 92>>, <<233, 10>>},
        to \in {<<48, 120, 77>>, <<>>},
        value \in {<<49, 48, 48, 48, 48>>, <<1>>},
        nonce \in {<<48, 120, 48, 49>>, <<233>>, <<92, 34>>}}

RECURSIVE Flatten(_)
Flatten(pieces) ==
    IF pieces = <<>> THEN <<>>
    ELSE Flatten(SubSeq(pieces, 1, Len(pieces) - 1)) \o pieces[Len(pieces)]

\* the lower-case hexadecimal digit of a value below 16, and back
HexDigit(v) == IF v < 10 THEN 48 + v ELSE 87 + v

HexValue(c) == IF c < 58 THEN c - 48 ELSE IF c < 71 THEN c - 55 ELSE c - 87

EscapeChar_Plain(c) == <<c>>

\* JSON.stringify of one code unit of a string
EscapeChar(c) ==
    IF c = 34 THEN <<92, 34>>
    ELSE IF c = 92 THEN <<92, 92>>
    ELSE IF c = 8 THEN <<92, 98>>
    ELSE IF c = 9 THEN <<92, 116>>
    ELSE IF c = 10 THEN <<92, 110>>
    ELSE IF c = 12 THEN <<92, 102>>
    ELSE IF c = 13 THEN <<92, 114>>
    ELSE IF c < 32 THEN <<92, 117, 48, 48, HexDigit(c \div 16), HexDigit(c % 16)>>
    ELSE <<c>>

\* JSON.stringify of a string
Quote(chars) ==
    <<34>> \o Flatten([i \in 1..Len(chars) |-> EscapeChar(chars[i])]) \o <<34>>

\* JSON.stringify of a value: no white space, members in their order
RECURSIVE JsonStringify(_)
JsonStringify(v) ==
    IF v.type = "string" THEN Quote(v.chars)
    ELSE IF v.type = "number"
    THEN LET digits == Digits(v.number)
         IN  [i \in 1..Len(digits) |-> 48 + digits[i]]
    ELSE <<123>>
         \o Flatten([i \in 1..Len(v.members) |->
                (IF i > 1 THEN <<44>> ELSE <<>>)
                \o Quote(v.members[i].key) \o <<58>>
                \o JsonStringify(v.members[i].value)])
         \o <<125>>

\* Buffer.from(string): the UTF-8 bytes of the code units
Utf8Encode(chars) ==
    LET wide == {i \in 1..Len(chars) : chars[i] >= 128}
        start == [i \in 1..Len(chars) |->
                    i + Cardinality({j \in wide : j < i})]
        total == Len(chars) + Cardinality(wide)
    IN  [b \in 1..total |->
            LET i == CHOOSE i \in 1..Len(chars) :
                        start[i] = b \/ (i \in wide /\ start[i] + 1 = b)
            IN  IF i \notin wide THEN chars[i]
                ELSE IF start[i] = b THEN 192 + (chars[i] \div 64)
                ELSE 128 + (chars[i] % 64)]

\* the character of the base64 alphabet for a value below 64, and back
Base64Char(v) ==
    IF v < 26 THEN 65 + v
    ELSE IF v < 52 THEN 71 + v
    ELSE IF v < 62 THEN v - 4
    ELSE IF v = 62 THEN 43 ELSE 47

Base64Value(c) ==
    IF c = 43 THEN 62
    ELSE IF c = 47 THEN 63
    ELSE IF c < 58 THEN c + 4
    ELSE IF c < 91 THEN c - 65
    ELSE c - 71

\* buffer.toString('base64'): three bytes to four characters, '=' padding
Base64Encode(bytes) ==
    LET n == Len(bytes)
        At(i) == IF i <= n THEN bytes[i] ELSE 0
    IN  [k \in 1..(4 * ((n + 2) \div 3)) |->
            LET first == 3 * ((k - 1) \div 4) + 1
                b0 == At(first)
                b1 == At(first + 1)
                b2 == At(first + 2)
                place == (k - 1) % 4
            IN  IF place = 0 THEN Base64Char(b0 \div 4)
                ELSE IF place = 1
                THEN Base64Char((b0 % 4) * 16 + (b1 \div 16))
                ELSE IF place = 2
                THEN (IF first + 1 > n THEN 61
                      ELSE Base64Char((b1 % 16) * 4 + (b2 \div 64)))
                ELSE (IF first + 2 > n THEN 61 ELSE Base64Char(b2 % 64))]

\* Buffer.from(header, 'base64'): four characters to three bytes, the
\* padding giving none
Base64Decode(header) ==
    LET m == Cardinality({k \in 1..Len(header) : header[k] # 61})
        At(k) == IF k <= m THEN Base64Value(header[k]) ELSE 0
    IN  [b \in 1..((m * 6) \div 8) |->
            LET first == 4 * ((b - 1) \div 3) + 1
                place == (b - 1) % 3
            IN  IF place = 0 THEN At(first) * 4 + (At(first + 1) \div 16)
                ELSE IF place = 1
                THEN (At(first + 1) % 16) * 16 + (At(first + 2) \div 4)
                ELSE (At(first + 2) % 4) * 64 + At(first + 3)]

\* buffer.toString('utf8'): the code units of the UTF-8 bytes
Utf8Decode(bytes) ==
    LET leads == {b \in 1..Len(bytes) : bytes[b] < 128 \/ bytes[b] >= 192}
        place == [b \in 1..Len(bytes) |-> Cardinality({l \in leads : l <= b})]
    IN  [i \in 1..Cardinality(leads) |->
            LET b == CHOOSE b \in leads : place[b] = i
            IN  IF bytes[b] < 128 THEN bytes[b]
                ELSE (bytes[b] - 192) * 64 + (bytes[b + 1] - 128)]

\* the character of text at i, 0 past its end
CharAt(text, i) == IF i >= 1 /\ i <= Len(text) THEN text[i] ELSE 0

\* JSON.parse inside a string, from i to the closing quote: the characters
\* and the position behind the quote
RECURSIVE ParseChars(_, _)
ParseChars(text, i) ==
    LET c == CharAt(text, i)
        e == CharAt(text, i + 1)
    IN  IF c = 34 \/ c = 0 THEN [chars |-> <<>>, next |-> i + 1]
        ELSE IF c = 92 /\ e = 117
        THEN LET rest == ParseChars(text, i + 6)
                 unit == HexValue(CharAt(text, i + 2)) * 4096
                         + HexValue(CharAt(text, i + 3)) * 256
                         + HexValue(CharAt(text, i + 4)) * 16
                         + HexValue(CharAt(text, i + 5))
             IN  [rest EXCEPT !.chars = <<unit>> \o @]
        ELSE IF c = 92
        THEN LET rest == ParseChars(text, i + 2)
                 unit == IF e = 98 THEN 8
                         ELSE IF e = 116 THEN 9
                         ELSE IF e = 110 THEN 10
                         ELSE IF e = 102 THEN 12
                         ELSE IF e = 114 THEN 13
                         ELSE e
             IN  [rest EXCEPT !.chars = <<unit>> \o @]
        ELSE LET rest == ParseChars(text, i + 1)
             IN  [rest EXCEPT !.chars = <<c>> \o @]

\* the digits of a number from i on, and the position behind them
RECURSIVE ParseDigits(_, _)
ParseDigits(text, i) ==
    LET c == CharAt(text, i)
    IN  IF c < 48 \/ c > 57 THEN [digits |-> <<>>, next |-> i]
        ELSE LET rest == ParseDigits(text, i + 1)
             IN  [rest EXCEPT !.digits = <<c - 48>> \o @]

\* JSON.parse of the value at i, and of the members of an object from i on:
\* the value and the position behind it
RECURSIVE ParseValue(_, _)
RECURSIVE ParseMembers(_, _)
ParseValue(text, i) ==
    LET c == CharAt(text, i)
    IN  IF c = 34
        THEN LET s == ParseChars(text, i + 1)
             IN  [value |-> JsonString(s.chars), next |-> s.next]
        ELSE IF c = 123
        THEN LET m == ParseMembers(text, i + 1)
             IN  [value |-> JsonObject(m.members), next |-> m.next]
        ELSE LET d == ParseDigits(text, i)
             IN  [value |-> JsonNumber(DigitsValue(d.digits)), next |-> d.next]

ParseMembers(text, i) ==
    IF CharAt(text, i) # 34 THEN [members |-> <<>>, next |-> i + 1]
    ELSE LET key == ParseChars(text, i + 1)
             val == ParseValue(text, key.next + 1)
             rest == IF CharAt(text, val.next) = 44
                     THEN ParseMembers(text, val.next + 1)
                     ELSE [members |-> <<>>, next |-> val.next + 1]
         IN  [members |-> <<Member(key.chars, val.value)>> \o rest.members,
              next |-> rest.next]

\* JSON.parse(text)
JsonParse(text) == ParseValue(text, 1).value

\* Buffer.from(JSON.stringify(paymentPayload)).toString('base64')
EncodePayment(paymentPayload) ==
    Base64Encode(Utf8Encode(JsonStringify(paymentPayload)))

\* JSON.parse(Buffer.from(paymentHeader, 'base64').toString('utf8'))
DecodePayment(paymentHeader) ==
    JsonParse(Utf8Decode(Base64Decode(paymentHeader)))

InitCodec ==
    /\ failureCount = 0
    /\ lastFailureTime = 0
    /\ clock = StartClock
    /\ hasKey = TRUE
    /\ calls = EmptyBag
    /\ failedCalls = 0
    /\ resetFresh = "no"
    /\ lastAdmit = "none"
    /\ ioWhileOpen = FALSE
    /\ randomDraws = 0
    /\ signedLog = <<>>
    /\ paidLog = <<>>
    /\ delivered = NoDelivery
    /\ cache = [q \in Queries |-> Absent]
    /\ paidFor = [q \in Queries |-> 0]
    /\ newsCache = <<>>
    /\ codec \in {[NoCodec EXCEPT !.stage = "built", !.payment = p] :
                    p \in SignedPayments}

\* the header is made of the paymentPayload
Encode ==
    /\ codec.stage = "built"
    /\ codec' = [codec EXCEPT !.stage = "encoded",
                              !.header = EncodePayment(codec.payment)]
    /\ UNCHANGED <<failureCount, lastFailureTime, clock, hasKey, calls,
                   failedCalls, lastAdmit, resetFresh, ioWhileOpen, randomDraws,
                   signedLog, paidLog, delivered, cache, paidFor, newsCache>>

\* the receiver of the header decodes it
Decode ==
    /\ codec.stage = "encoded"
    /\ codec' = [codec EXCEPT !.stage = "decoded",
                              !.decoded = DecodePayment(codec.header)]
    /\ UNCHANGED <<failureCount, lastFailureTime, clock, hasKey, calls,
                   failedCalls, lastAdmit, resetFresh, ioWhileOpen, randomDraws,
                   signedLog, paidLog, delivered, cache, paidFor, newsCache>>

NextCodec ==
    \/ Encode
    \/ Decode

SpecCodec == InitCodec /\ [][NextCodec]_vars

\* --------------------------------------------------------------------------
\* Claims
\* --------------------------------------------------------------------------
Succeeded == {"ok_delegated", "ok_manual"}

\* C1: while failureCount >= 3 and now - lastFailureTime < 60 s no payment
\* attempt starts a request or a signature, in the delegated strategy or in
\* the manual one: no step starts either of them with the breaker condition
\* holding at that moment.
C1_NoIOWhileOpen == ~ioWhileOpen

\* C2: a searchNews call in which both strategies failed has incremented
\* failureCount exactly once.
C2_IncrementedOnce ==
    \A r \in InFlight : r.outcome = "both_failed" => r.incs = 1

\* C3: a call is rejected as cooling down only if at least 3 searchNews calls
\* have failed since the most recent success or reset.
C3_OpensAtThreeFailedCalls ==
    \A r \in InFlight : r.outcome = "cooldown" => r.failedSeen >= MAX_FAILURES

\* C4: the step in which the breaker rejects a call leaves failureCount and
\* lastFailureTime as they were, starts no request and no signature, invokes
\* neither strategy, and gives the call the cooling-down outcome with the
\* remaining wait rounded up to whole seconds.
C4_RejectionLeavesBreaker ==
    [][(AllRunning /\ \E r \in BagToSet(calls') : r.outcome = "cooldown")
        => /\ failureCount' = failureCount
           /\ lastFailureTime' = lastFailureTime
           /\ ~ioWhileOpen'
           /\ \A r \in BagToSet(calls') : r.outcome = "cooldown" =>
                LET rem == CIRCUIT_BREAKER_DELAY - (clock - lastFailureTime)
                IN  /\ r.net = 0 /\ r.signs = 0 /\ r.dRuns = 0 /\ r.mRuns = 0
                    /\ r.result = "none"
                    /\ r.waitTime >= 1
                    /\ r.waitTime * 1000 >= rem
                    /\ (r.waitTime - 1) * 1000 < rem]_vars

\* a call was rejected part-way through the cooldown
C4_Witness ==
    \E r \in InFlight :
        r.outcome = "cooldown" /\ r.waitTime * 1000 < CIRCUIT_BREAKER_DELAY

\* C5: right after a successful paid fetch, by either strategy, failureCount
\* is 0 whatever it was before.
C5_SuccessResets ==
    \A r \in InFlight : r.outcome \in Succeeded => failureCount = 0

\* a success arrived while failureCount was at or above the threshold
C5_Witness ==
    \E r \in InFlight : r.outcome \in Succeeded /\ r.prevCount >= MAX_FAILURES

\* C6: a call whose delegated strategy failed and whose manual strategy
\* succeeded returns the manual result, leaves failureCount no higher than it
\* found it (it is 0), and no other call was rejected on its increment.
C6_FallbackNotCounted ==
    \A r \in InFlight :
        r.outcome = "ok_manual"
            => r.result = "manual" /\ failureCount = 0 /\ ~r.blockedOther

\* C7: a call is rejected as cooling down only when less than 60 s have passed
\* since lastFailureTime; a call made once 60 s have passed is admitted, with
\* failureCount still at or above the threshold, and invokes the delegated
\* strategy.
C7_AdmittedAfterCooldown ==
    /\ \A r \in InFlight :
          r.outcome = "cooldown" => r.now - lastFailureTime < CIRCUIT_BREAKER_DELAY
    /\ lastAdmit = "afterCooldown" =>
          \E r \in InFlight : r.now = clock /\ r.dRuns = 1 /\ r.outcome # "cooldown"

\* a call admitted with failureCount >= MAX_FAILURES waits for the upstream
C7_Witness ==
    /\ lastAdmit = "afterCooldown"
    /\ failureCount >= MAX_FAILURES
    /\ \E r \in InFlight : r.pc = "d_wait" /\ r.now = clock

\* C8: after resetCircuitBreaker failureCount is 0 (and lastFailureTime 0),
\* from whatever state, and the searchNews call that follows is not rejected
\* as cooling down.
C8_ResetBypassesCooldown ==
    /\ resetFresh # "no" => failureCount = 0 /\ lastFailureTime = 0
    /\ \A r \in InFlight : r.outcome = "cooldown" => ~r.afterReset

\* the breaker was reset while it was blocking
C8_Witness == resetFresh = "open"

\* C9: no authorization above the spend ceiling is signed during a searchNews
\* call: a request carrying X-PAYMENT never holds a signed value above it.
C9_NeverSignsAboveCeiling ==
    \A r \in InFlight : r.pc = "m_paid" => r.value <= MaxValue

\* C10: in one call the delegated strategy runs first and once, the manual
\* strategy runs at most once and only after the delegated strategy raised,
\* never after it returned.
C10_FixedOrder ==
    \A r \in InFlight :
        /\ r.dRuns <= 1 /\ r.mRuns <= 1
        /\ r.pc = "d_wait" => r.dRuns = 1 /\ r.mRuns = 0
        /\ r.mRuns = 1 => r.dRuns = 1 /\ r.dRaised /\ ~r.dOk
        /\ r.pc \in ManualPcs => r.mRuns = 1
        /\ r.dOk => r.mRuns = 0 /\ r.result = "delegated"
        /\ r.result = "manual" => r.dRaised

\* one call is in its manual strategy, another returned from the delegated one
C10_Witness ==
    \E r1, r2 \in InFlight : r1.pc \in ManualPcs /\ r2.outcome = "ok_delegated"

\* the requests of r's manual attempt that carry X-PAYMENT
PaidSent(r) == {i \in 1..Len(r.sent) : r.sent[i].hasPayment}

\* C11: a manual attempt sends at most two requests; the request carrying
\* X-PAYMENT is the second, it is sent once the attempt has a signature and
\* only once, also after the upstream rejected it, and its body is the body of
\* the request sent without header.
C11_PaidRequestOnce ==
    \A r \in InFlight :
        /\ Len(r.sent) <= 2
        /\ r.mRuns = 1 => r.net = Len(r.sent)
        /\ \A i \in PaidSent(r) :
              i = 2 /\ ~r.sent[1].hasPayment /\ r.sent[i].body = r.sent[1].body
        /\ (r.pc = "m_paid" \/ r.mError.text = "Payment failed"
                            \/ r.outcome = "ok_manual")
              => Cardinality(PaidSent(r)) = 1
        /\ r.pc \in {"m_challenge", "m_sign"} => PaidSent(r) = {}

\* the upstream rejected the paid request of a manual attempt with 402 and {}
C11_Witness ==
    \E r \in InFlight :
        /\ r.outcome = "both_failed"
        /\ r.mError = PaymentFailedError(402, "{}")
        /\ Len(r.sent) = 2

\* C12: in a manual attempt nothing is built or signed before the challenge
\* is answered; an authorization is built only from the first requirement of
\* the 402 answer this call received; while signTypedData runs no paid request
\* is out; and every request carrying X-PAYMENT holds the signature that
\* signTypedData returned for this call's authorization, and that
\* authorization.
C12_StrictlySequential ==
    \A r \in InFlight :
        /\ r.pc = "m_challenge" =>
              /\ r.signs = 0
              /\ r.authorization = NoAuthorization
              /\ r.signature = NoSignature
        /\ r.signs > 0 =>
              /\ r.cStatus = 402 /\ r.cAccepts > 0
              /\ r.authorization # NoAuthorization
              /\ r.authorization.value = r.requirement.maxAmountRequired
        /\ r.pc = "m_sign" => r.signature = NoSignature /\ PaidSent(r) = {}
        /\ \A i \in PaidSent(r) :
              LET pl == HeaderPayload(r.sent[i].payment).payload
              IN  /\ r.signs = 1
                  /\ pl.signature # NoSignature
                  /\ pl.signature = r.signature
                  /\ pl.signature.signed = r.authorization
                  /\ pl.authorization = r.authorization

\* the last manual attempt of the run has its paid request out
C12_Witness ==
    /\ \E r \in InFlight : r.pc = "m_paid" /\ PaidSent(r) = {2}
    /\ Len(paidLog) = MaxSigned

\* C13: when the request without header is answered with a status other than
\* 402, nothing is signed and no payment header is sent, the call does not
\* end as a payment failure and adds nothing to failureCount on account of
\* that answer, and a 200 answer gives the call its success result.
C13_Non402NotAFailure ==
    \A r \in InFlight :
        (r.mRuns = 1 /\ r.cStatus \in {200, 500}) =>
            /\ r.signs = 0 /\ PaidSent(r) = {}
            /\ r.outcome # "both_failed"
            /\ r.incs <= 1
            /\ r.cStatus = 200 => r.outcome \in Succeeded

\* C14: a 402 answer whose accepts is missing or empty ends the manual
\* attempt at once: one request was sent, nothing is signed, no request
\* carries X-PAYMENT, the attempt raised, and searchNews counted the failure
\* (failureCount++ and lastFailureTime = now of the call).
C14_EmptyAcceptsRejected ==
    \A r \in InFlight :
        (r.mRuns = 1 /\ r.cStatus = 402 /\ r.cAccepts = 0) =>
            /\ r.pc = "done" /\ r.outcome = "both_failed"
            /\ r.signs = 0 /\ r.authorization = NoAuthorization
            /\ Len(r.sent) = 1 /\ PaidSent(r) = {}
            /\ r.mError = TypeError
            /\ r.incs = 2
            /\ failureCount >= 2 /\ lastFailureTime = r.now

\* a manual attempt got a 402 without requirements
C14_Witness ==
    \E r \in InFlight : r.mRuns = 1 /\ r.cStatus = 402 /\ r.cAccepts = 0

\* C15: without a private key a call makes no request, does not run the
\* manual strategy after the delegated one raised, raises the configuration
\* error itself, and leaves failureCount and lastFailureTime as they were.
C15_MissingKeyIsFatal ==
    ~hasKey =>
        /\ failureCount = 0 /\ lastFailureTime = 0
        /\ \A r \in InFlight :
              /\ r.net = 0 /\ r.sent = <<>>
              /\ r.mRuns = 0
              /\ r.pc = "done" => r.raised = KeyRequiredError

\* C16: when both strategies failed, the error searchNews raises carries the
\* error of the delegated strategy and the error of the manual strategy, and
\* with it the raw body of a rejected paid request.
C16_CombinedErrorCarriesCauses ==
    \A r \in InFlight :
        r.outcome = "both_failed" =>
            /\ r.dError \in r.raised.causes
            /\ r.mError \in r.raised.causes
            /\ r.mError.text = "Payment failed" =>
                  \E e \in r.raised.causes : e.body = r.mError.body

\* C17: a searchNews call returns a value only when the last answer it
\* received had status 200; after any other last status (402 with {} after a
\* payment among them) it raises, and getNewsByDateString raises too: it
\* returns no list, so no empty list, for such a call.
C17_NonSuccessRaises ==
    /\ \A r \in InFlight :
          /\ r.outcome \in Succeeded => r.lastStatus = 200
          /\ (r.pc = "done" /\ r.lastStatus # 200) => r.raised # NoError
    /\ (delivered.kind # "none" /\ delivered.upstream # 200) =>
          delivered.kind = "raised" /\ delivered.articles = <<>>

\* getNewsByDateString raised after the upstream's last answer was a 402
C17_Witness == delivered.kind = "raised" /\ delivered.upstream = 402

\* the calls whose manual attempt has built and handed over an authorization
Built == {r \in InFlight : r.signs > 0}

\* C18: every authorization the manual strategy builds for a requirement
\* with positive maxTimeoutSeconds has validAfter < now <= validBefore, now
\* being the second in which it was built.
C18_ValidWindow ==
    \A r \in Built :
        r.requirement.maxTimeoutSeconds > 0 =>
            /\ ParseInt(r.authorization.validAfter) < r.builtAt
            /\ r.builtAt <= ParseInt(r.authorization.validBefore)

\* an authorization was built for a requirement with a positive timeout
C18_Witness ==
    \E r \in Built : r.requirement.maxTimeoutSeconds > DefaultTimeoutSeconds

C20_FreshNonce ==
    /\ Len(signedLog) = randomDraws
    /\ \A i, j \in 1..Len(signedLog) : i # j => signedLog[i] # signedLog[j]
    /\ \A i, j \in 1..Len(paidLog) : i # j => paidLog[i] # paidLog[j]
    /\ \A r \in Built :
          /\ r.authorization.nonce = signedLog[Len(signedLog)]
          /\ Cardinality(PaidSent(r)) <= 1

\* a manual attempt signs after an earlier one signed and failed
C20_Witness ==
    /\ Len(signedLog) >= 2
    /\ failureCount >= 2
    /\ \E r \in Built : r.pc = "m_sign"

\* C21: the authorization in the X-PAYMENT header of a paid request is field
\* for field the message that was signed, its from is the payer's address,
\* its to and value are payTo and maxAmountRequired of the first requirement
\* the upstream offered, and the payload holds a signature and an
\* authorization and no other field.
C21_HeaderIsSignedMessage ==
    \A r \in InFlight : \A i \in PaidSent(r) :
        LET pl == HeaderPayload(r.sent[i].payment).payload
            a == pl.authorization
        IN  /\ DOMAIN pl = {"signature", "authorization"}
            /\ DOMAIN a = {"from", "to", "value", "validAfter", "validBefore",
                           "nonce"}
            /\ a = pl.signature.signed
            /\ a.from = AccountAddress
            /\ a.to = r.offered[1].payTo
            /\ a.value = r.offered[1].maxAmountRequired

\* the paid request of an attempt that was offered two requirements is out
C21_Witness ==
    \E r \in InFlight :
        /\ r.pc = "m_paid" /\ PaidSent(r) # {}
        /\ Len(r.offered) = 2 /\ r.offered[1].payTo # r.offered[2].payTo

\* C25: a circuit-open rejection reaches the caller of the news service as
\* an error whose code differs from the code of a configuration error and of
\* a rejected payment: the first is raised as FIRECRAWL_ERROR, the other two
\* as PAYMENT_FAILED.
C25_CircuitOpenHasOwnCode ==
    LET circuitOpen == delivered.outcome = "cooldown"
        configuration == delivered.cause = KeyRequiredError.text
        rejected == delivered.cause = "Payment failed"
    IN  /\ circuitOpen => delivered.kind = "raised"
                          /\ delivered.code = "FIRECRAWL_ERROR"
        /\ (configuration \/ rejected)
              => delivered.kind = "raised" /\ delivered.code = "PAYMENT_FAILED"

\* a request was rejected by the open circuit after a payment was rejected
C25_Witness ==
    /\ delivered.outcome = "cooldown" /\ delivered.code = "FIRECRAWL_ERROR"
    /\ failureCount >= MAX_FAILURES /\ hasKey

\* C27: a step that records a failure sets lastFailureTime to the time of
\* that step, so that lastFailureTime never moves backwards unless the
\* breaker is reset.
C27_FailureTimeIsRecordingTime ==
    [][(lastFailureTime' # lastFailureTime /\ resetFresh' = "no")
        => lastFailureTime' = clock /\ lastFailureTime' >= lastFailureTime]_vars

\* C28: the passage of time leaves failureCount as it is and only a
\* successful call lowers it (to 0); so a call entering while failureCount
\* is at or above the threshold and less than 60 s have passed since
\* lastFailureTime is rejected and leaves failureCount as it is, also when
\* the failure before it was that of the call admitted after a cooldown.
C28_CooldownKeepsCount ==
    [][/\ failureCount' < failureCount
            => /\ failureCount' = 0
               /\ \E r \in BagToSet(calls') : r.outcome \in Succeeded
       /\ clock' # clock => failureCount' = failureCount
       /\ (/\ calls = EmptyBag /\ calls' # EmptyBag
           /\ failureCount >= MAX_FAILURES
           /\ clock - lastFailureTime < CIRCUIT_BREAKER_DELAY)
            => /\ failureCount' = failureCount
               /\ \A r \in BagToSet(calls') : r.outcome = "cooldown"]_vars

\* the call admitted after a cooldown failed and the next call is rejected:
\* one caller at a time reaches twice the threshold only through a call
\* admitted at or above it
C28_Witness ==
    /\ failureCount >= 2 * MAX_FAILURES
    /\ lastFailureTime >= StartClock + CIRCUIT_BREAKER_DELAY
    /\ \E r \in InFlight : r.outcome = "cooldown" /\ r.now = lastFailureTime

\* C23: a getNewsByDateString request reaches searchNews only after its
\* cache lookup returned no document or a document without articles; while
\* it awaits the lookup it has invoked no strategy, sent no request and
\* asked for no signature; and a request answered from the cache returns the
\* cached articles, at least one, without any outcome of searchNews.
C23_EngineOnlyOnMiss ==
    /\ \A r \in InFlight :
          /\ r.pc # "lookup" => r.found \in {"absent", "empty"}
          /\ r.pc = "lookup" =>
                /\ r.dRuns = 0 /\ r.mRuns = 0 /\ r.net = 0 /\ r.signs = 0
                /\ r.outcome = "none" /\ r.found = "pending"
    /\ delivered.source = "cache" =>
          /\ delivered.kind = "returned" /\ delivered.articles # <<>>
          /\ \E q \in RequestedKeys : delivered.articles = cache[q].articles
          /\ delivered.outcome = "none" /\ delivered.upstream = 0

\* a request that found a document without articles awaits the upstream
C23_Witness ==
    \E r \in InFlight : r.found = "empty" /\ r.pc = "d_wait" /\ r.net = 1

\* C24: for every cache key at most one paid fetch succeeds, over all
\* getNewsByDateString requests for that key.
C24_PaidOncePerKey == \A q \in Queries : paidFor[q] <= 1

\* C29: the cache changes only in the step in which saveNewsForDate ends
\* for a request whose fetch returned at least one article, and then the
\* document of the request's key holds those articles; a step that raises
\* to the caller (failed fetch, open circuit, invalid date) or returns no
\* article leaves the cache as it is.
C29_CacheWrittenAfterArticles ==
    [][/\ cache' # cache =>
            \E r \in InFlight :
                /\ r.pc = "save" /\ r.outcome \in Succeeded
                /\ Len(r.data.articles) > 0
                /\ cache' = [cache EXCEPT ![r.query] = Document(r.data.articles)]
       /\ (\/ delivered'.kind = "raised"
           \/ delivered'.kind = "returned" /\ delivered'.articles = <<>>)
            => cache' = cache]_vars

\* the articles of a paid fetch have been written to the cache
C29_Witness ==
    /\ delivered.saved = "ok" /\ delivered.articles = <<"a1">>
    /\ \E q \in RequestedKeys : cache[q] = Document(<<"a1">>)

\* C30: when saveNewsForDate fails after a fetch that returned articles,
\* the request still returns those articles, and the step changes neither
\* failureCount nor lastFailureTime nor the cache.
C30_SaveFailureStillReturns ==
    [][delivered'.saved = "failed" =>
          /\ delivered'.kind = "returned"
          /\ \E r \in InFlight :
                /\ r.pc = "save" /\ r.outcome \in Succeeded
                /\ delivered'.articles = r.data.articles
                /\ delivered'.articles # <<>>
          /\ failureCount' = failureCount
          /\ lastFailureTime' = lastFailureTime
          /\ cache' = cache]_vars

\* a request returned fresh articles although the cache write failed, with
\* failureCount at the 0 the fetch left
C30_Witness ==
    /\ delivered.saved = "failed" /\ delivered.kind = "returned"
    /\ delivered.articles = <<"a1">> /\ failureCount = 0
    /\ calls = EmptyBag

\* C26: after a cacheNews operation the client cache holds at most 50
\* entries, whatever was loaded from localStorage before, and every entry
\* the operation removed is no younger than every entry it kept.
C26_AtMostFiftyEntries ==
    [][newsCache' # newsCache =>
          /\ Len(newsCache') <= MAX_CACHE_ENTRIES
          /\ \A i \in 1..Len(newsCache) :
                (\A j \in 1..Len(newsCache') :
                    newsCache'[j].key # newsCache[i].key)
                => \A j \in 1..Len(newsCache') :
                      newsCache[i].timestamp <= newsCache'[j].timestamp]_vars

\* C22: decoding the header made of a paymentPayload (base64 decoding, UTF-8
\* decoding and JSON parsing of the base64 of the UTF-8 bytes of its JSON
\* text) gives the paymentPayload back.
C22_RoundTrip ==
    codec.stage = "decoded" => codec.decoded = codec.payment

\* a payload whose signature holds a character outside ASCII and a line
\* feed, and whose nonce holds a backslash and a quote, has been decoded
C22_Witness ==
    /\ codec.stage = "decoded"
    /\ codec.payment = SignedPayment(1, <<233, 10>>, <<>>, <<1>>, <<92, 34>>)
    /\ Len(codec.header) % 4 = 0 /\ Len(codec.header) > 0

====
